---- MODULE Spec2Model ----
(***************************************************************************)
(* Model of the update-orchestration core of the spot-check firmware:      *)
(* the one-second timetable tick (conditions_timer_expired_callback), the  *)
(* notification value of the conditions-update task, the dispatch loop     *)
(* (conditions_update_task) and the conditions fetch (conditions_refresh). *)
(***************************************************************************)
EXTENDS Integers, Sequences, FiniteSets, TLC

VARIABLES
    clock,                     \* local epoch seconds the next tick will read
    boot,                      \* value of the clock at the first tick
    ticks,                     \* number of timer callbacks run so far
    sinceFired,                \* history: callbacks since each differential entry last fired
    differential_updates,      \* the differential table (mutable fields)
    discrete_updates,          \* the discrete table
    pending,                   \* notification value of conditions_update_task
    pc,                        \* position of conditions_update_task
    update_bits,               \* local of conditions_update_task
    full_clear,                \* local of conditions_update_task
    conditions_success,        \* local of conditions_update_task
    last_retrieved_conditions, \* the shared snapshot
    calls,                     \* collaborator calls of the current pass
    diffFired,                 \* history: differential entries fired by the last tick
    discFired,                 \* history: discrete entries fired by the last tick
    prevDiff,                  \* history: differential table before the last tick
    dayCount,                  \* history: fires of each discrete entry this calendar day
    minCount,                  \* history: fires of each discrete entry this wall-clock minute
    raisedSince,               \* history: raises of each bit since the last wake
    wokenRaises,               \* history: raisedSince as read by the last wake
    raisers,                   \* history: who raised since the last wake ("tick", a function name)
    wokenRaisers,              \* history: raisers as read by the last wake
    nraises,                   \* history: number of external raises so far
    npasses,                   \* history: number of wakes so far
    lastResponse,              \* history: the response of the last conditions_refresh
    prevConditions,            \* history: the snapshot before the last conditions_refresh
    refreshResult              \* history: "none", "success" or "failure" of the last refresh

vars == <<clock, boot, ticks, sinceFired, differential_updates, discrete_updates, pending, pc,
          update_bits, full_clear, conditions_success, last_retrieved_conditions,
          calls, diffFired, discFired, prevDiff, dayCount, minCount, raisedSince,
          wokenRaises, raisers, wokenRaisers, nraises, npasses, lastResponse, prevConditions,
          refreshResult>>

tickVars == <<clock, ticks, sinceFired, differential_updates, discrete_updates,
              diffFired, discFired, prevDiff, dayCount, minCount>>
taskVars == <<pc, update_bits, full_clear, conditions_success, calls, npasses,
              wokenRaises, wokenRaisers>>
fetchVars == <<last_retrieved_conditions, lastResponse, prevConditions, refreshResult>>

(***************************************************************************)
(* Bounds of the model.                                                    *)
(***************************************************************************)
MaxTicks == 2          \* timer callbacks in the full-system specification
MaxClockTicks == 3000  \* timer callbacks in the tick-only specifications
MaxDayTicks == 90000   \* timer callbacks in the day-long specification
MaxJumpTicks == 200    \* timer callbacks in the stepping-clock specification
MaxRaises == 3         \* calls of the exposed conditions_trigger_* functions

(***************************************************************************)
(* Program constants.                                                      *)
(***************************************************************************)
SECS_PER_MIN == 60
MINS_PER_HOUR == 60
HOURS_PER_DAY == 24
\* Kconfig value, set outside the files at hand; the ota entry is never evaluated.
CONFIG_OTA_CHECK_INTERVAL_HOURS == 24

NUM_DIFFERENTIAL_UPDATES == 3
NUM_DISCRETE_UPDATES == 4

TIME_UPDATE_INTERVAL_SECONDS == 1 * SECS_PER_MIN
CONDITIONS_UPDATE_INTERVAL_SECONDS == 20 * SECS_PER_MIN
CHARTS_UPDATE_INTERVAL_SECONDS == MINS_PER_HOUR * SECS_PER_MIN
OTA_CHECK_INTERVAL_SECONDS == CONFIG_OTA_CHECK_INTERVAL_HOURS * MINS_PER_HOUR * SECS_PER_MIN

UPDATE_CONDITIONS_BIT == 2^0
UPDATE_TIDE_CHART_BIT == 2^1
UPDATE_SWELL_CHART_BIT == 2^2
UPDATE_TIME_BIT == 2^3
UPDATE_SPOT_NAME_BIT == 2^4
CHECK_OTA_BIT == 2^5

\* UINT32_MAX cut to the 31 bits the checker's integers hold; the program uses bits 0..5
UINT32_MAX == 2147483647
WILDCARD == 255

Bits == {UPDATE_CONDITIONS_BIT, UPDATE_TIDE_CHART_BIT, UPDATE_SWELL_CHART_BIT,
         UPDATE_TIME_BIT, UPDATE_SPOT_NAME_BIT, CHECK_OTA_BIT}

(***************************************************************************)
(* Bitwise operators of C on unsigned 32-bit values.                       *)
(***************************************************************************)
RECURSIVE BitAnd(_, _)
BitAnd(a, b) ==
    IF a = 0 \/ b = 0 THEN 0
    ELSE (a % 2) * (b % 2) + 2 * BitAnd(a \div 2, b \div 2)

RECURSIVE BitOr(_, _)
BitOr(a, b) ==
    IF a = 0 THEN b
    ELSE IF b = 0 THEN a
    ELSE (IF (a % 2) + (b % 2) > 0 THEN 1 ELSE 0) + 2 * BitOr(a \div 2, b \div 2)

BitNot(a) == UINT32_MAX - a

\* C truth value of (x & bit)
Has(x, bit) == BitAnd(x, bit) # 0

(***************************************************************************)
(* Task notification primitive (eSetBits / read-and-clear on exit).        *)
(***************************************************************************)
xTaskNotify_increment(value, bits) == (value + bits) % 2^30

xTaskNotify(value, bits) == BitOr(value, bits)

xTaskNotifyWait_keep(value, clearOnExit) == value

\* the notification value left behind by xTaskNotifyWait(0x0, clearOnExit, ...)
xTaskNotifyWait(value, clearOnExit) == BitAnd(value, BitNot(clearOnExit))

RECURSIVE NotifyAll(_, _)
NotifyAll(value, bitSeq) ==
    IF bitSeq = <<>> THEN value
    ELSE NotifyAll(xTaskNotify(value, Head(bitSeq)), Tail(bitSeq))

(***************************************************************************)
(* The execute functions of the tables and the exposed raise functions:    *)
(* the bits each ORs into the notification value.                          *)
(***************************************************************************)
conditions_trigger_ota_check == CHECK_OTA_BIT
conditions_trigger_time_update == UPDATE_TIME_BIT
conditions_trigger_spot_name_update == UPDATE_SPOT_NAME_BIT
conditions_trigger_conditions_update == UPDATE_CONDITIONS_BIT
conditions_trigger_tide_chart_update == UPDATE_TIDE_CHART_BIT
conditions_trigger_swell_chart_update == UPDATE_SWELL_CHART_BIT
conditions_trigger_both_charts_update_swell_only == UPDATE_SWELL_CHART_BIT

conditions_trigger_both_charts_update == BitOr(UPDATE_SWELL_CHART_BIT, UPDATE_TIDE_CHART_BIT)

(***************************************************************************)
(* The timetables.                                                         *)
(***************************************************************************)
DiffIdx == 1..NUM_DIFFERENTIAL_UPDATES
DiscIdx == 1..NUM_DISCRETE_UPDATES

DiffName(i) == <<"time", "conditions", "ota">>[i]
DiffInterval(i) == <<TIME_UPDATE_INTERVAL_SECONDS, CONDITIONS_UPDATE_INTERVAL_SECONDS,
                     OTA_CHECK_INTERVAL_SECONDS>>[i]
DiffExecute(i) == <<conditions_trigger_time_update, conditions_trigger_conditions_update,
                    conditions_trigger_ota_check>>[i]

DiscName(i) == <<"tide", "swell_morning", "swell_midday", "swell_evening">>[i]
DiscExecute(i) == <<conditions_trigger_tide_chart_update, conditions_trigger_swell_chart_update,
                    conditions_trigger_swell_chart_update,
                    conditions_trigger_swell_chart_update>>[i]

differential_updates_init ==
    [i \in DiffIdx |-> [last_executed_epoch_secs |-> 0, force_next_update |-> TRUE]]

DiscEntry(h, m) ==
    [hour |-> h, minute |-> m, executed_already |-> FALSE, force_next_update |-> TRUE]

discrete_updates_init ==
    <<DiscEntry(3, 0), DiscEntry(12, 0), DiscEntry(21, 0), DiscEntry(17, 0)>>

(***************************************************************************)
(* Local time: the fields of struct tm the callback reads, from the local  *)
(* epoch seconds mktime gives back.                                        *)
(***************************************************************************)
SECS_PER_DAY == HOURS_PER_DAY * MINS_PER_HOUR * SECS_PER_MIN
tm_hour(t) == (t \div (MINS_PER_HOUR * SECS_PER_MIN)) % HOURS_PER_DAY
tm_min(t) == (t \div SECS_PER_MIN) % MINS_PER_HOUR
tm_sec(t) == t % SECS_PER_MIN
DayOf(t) == t \div SECS_PER_DAY

(***************************************************************************)
(* conditions_timer_expired_callback                                       *)
(***************************************************************************)
discrete_time_matches(current, check) == (current = check) \/ (check = WILDCARD)

DiffIterated_all == 1..NUM_DIFFERENTIAL_UPDATES

\* for (int i = 0; i < (NUM_DIFFERENTIAL_UPDATES - 1); i++)
DiffIterated == 1..(NUM_DIFFERENTIAL_UPDATES - 1)

DiscIterated_all == 1..NUM_DISCRETE_UPDATES

\* for (int i = 0; i < (NUM_DISCRETE_UPDATES - 1); i++)
DiscIterated == 1..(NUM_DISCRETE_UPDATES - 1)

DiffDue_nonstrict(e, i, now) ==
    ((now - e.last_executed_epoch_secs) >= DiffInterval(i)) \/ e.force_next_update

\* the condition of the differential if
DiffDue(e, i, now) ==
    ((now - e.last_executed_epoch_secs) > DiffInterval(i)) \/ e.force_next_update

\* the condition of the outer discrete if
DiscMatchOrForce(e, now) ==
    (discrete_time_matches(tm_hour(now), e.hour) /\ discrete_time_matches(tm_min(now), e.minute))
        \/ e.force_next_update

DiffFires(tbl, i, now) == i \in DiffIterated /\ DiffDue(tbl[i], i, now)
DiscFires(tbl, i, now) ==
    i \in DiscIterated /\ DiscMatchOrForce(tbl[i], now) /\ ~tbl[i].executed_already

DiffAfter(tbl, now) ==
    [i \in DiffIdx |->
        IF DiffFires(tbl, i, now)
        THEN [last_executed_epoch_secs |-> now, force_next_update |-> FALSE]
        ELSE tbl[i]]

DiscAfter_keep_force(tbl, now) ==
    [i \in DiscIdx |->
        IF i \notin DiscIterated THEN tbl[i]
        ELSE IF DiscMatchOrForce(tbl[i], now)
             THEN IF ~tbl[i].executed_already
                  THEN [tbl[i] EXCEPT !.executed_already = TRUE]
                  ELSE tbl[i]
             ELSE IF tbl[i].executed_already
                  THEN [tbl[i] EXCEPT !.executed_already = FALSE]
                  ELSE tbl[i]]

DiscAfter_no_rearm(tbl, now) ==
    [i \in DiscIdx |->
        IF i \in DiscIterated /\ DiscMatchOrForce(tbl[i], now) /\ ~tbl[i].executed_already
        THEN [tbl[i] EXCEPT !.force_next_update = FALSE, !.executed_already = TRUE]
        ELSE tbl[i]]

DiscAfter(tbl, now) ==
    [i \in DiscIdx |->
        IF i \notin DiscIterated THEN tbl[i]
        ELSE IF DiscMatchOrForce(tbl[i], now)
             THEN IF ~tbl[i].executed_already
                  THEN [tbl[i] EXCEPT !.force_next_update = FALSE, !.executed_already = TRUE]
                  ELSE tbl[i]
             ELSE IF tbl[i].executed_already
                  THEN [tbl[i] EXCEPT !.executed_already = FALSE]
                  ELSE tbl[i]]

\* the execute() calls of one callback, in program order
RECURSIVE DiffRaises(_, _, _)
DiffRaises(tbl, i, now) ==
    IF i > NUM_DIFFERENTIAL_UPDATES THEN <<>>
    ELSE (IF DiffFires(tbl, i, now) THEN <<DiffExecute(i)>> ELSE <<>>)
            \o DiffRaises(tbl, i + 1, now)

RECURSIVE DiscRaises(_, _, _)
DiscRaises(tbl, i, now) ==
    IF i > NUM_DISCRETE_UPDATES THEN <<>>
    ELSE (IF DiscFires(tbl, i, now) THEN <<DiscExecute(i)>> ELSE <<>>)
            \o DiscRaises(tbl, i + 1, now)

TickRaises(now) ==
    DiffRaises(differential_updates, 1, now) \o DiscRaises(discrete_updates, 1, now)

\* raises of each single bit by a sequence of xTaskNotify values
RaiseCounts(old, bitSeq) ==
    [b \in Bits |-> old[b] + Cardinality({k \in 1..Len(bitSeq) : Has(bitSeq[k], b)})]

conditions_timer_expired_callback(maxT) ==
    /\ ticks < maxT
    /\ LET now == clock
           newDay == ticks = 0 \/ DayOf(now) # DayOf(now - 1)
           newMin == ticks = 0 \/ tm_sec(now) = 0
           raises == TickRaises(now)
       IN /\ differential_updates' = DiffAfter(differential_updates, now)
          /\ discrete_updates' = DiscAfter(discrete_updates, now)
          /\ pending' = NotifyAll(pending, raises)
          /\ diffFired' = {i \in DiffIdx : DiffFires(differential_updates, i, now)}
          /\ discFired' = {i \in DiscIdx : DiscFires(discrete_updates, i, now)}
          /\ prevDiff' = differential_updates
          /\ dayCount' = [i \in DiscIdx |->
                (IF newDay THEN 0 ELSE dayCount[i])
                    + (IF DiscFires(discrete_updates, i, now) THEN 1 ELSE 0)]
          /\ minCount' = [i \in DiscIdx |->
                (IF newMin THEN 0 ELSE minCount[i])
                    + (IF DiscFires(discrete_updates, i, now) THEN 1 ELSE 0)]
          /\ raisedSince' = RaiseCounts(raisedSince, raises)
          /\ raisers' = IF raises = <<>> THEN raisers ELSE raisers \cup {"tick"}
    /\ sinceFired' = [i \in DiffIdx |->
          IF DiffFires(differential_updates, i, clock) THEN 0 ELSE sinceFired[i] + 1]
    /\ ticks' = ticks + 1
    /\ clock' = clock + 1
    /\ UNCHANGED <<boot, nraises>>
    /\ UNCHANGED taskVars
    /\ UNCHANGED fetchVars

(***************************************************************************)
(* conditions_refresh: the response of the transport and of the JSON       *)
(* decode, and the snapshot conditions_t.                                  *)
(***************************************************************************)
Item(t, i, s) == [type |-> t, valueint |-> i, valuestring |-> s]

\* a NULL cJSON pointer
NULLITEM == Item("absent", 0, "")

FieldNames == {"temp", "wind_speed", "wind_dir", "tide_height"}

\* cJSON_GetObjectItem(json, "data"): NULL when the document did not parse or has no data
GetData(resp) ==
    IF resp.json_parsed /\ resp.data_present THEN resp.data
    ELSE [k \in FieldNames |-> NULLITEM]

\* cJSON_GetObjectItem(data_value, key); a NULL object gives NULL
cJSON_GetObjectItem(data_value, key) == data_value[key]

cJSON_IsNumber(item) == item.type = "Number"
cJSON_IsString(item) == item.type = "String"

\* conversion of valueint to int8_t and uint8_t
ToInt8(v) == LET m == v % 2^8 IN IF m >= 2^7 THEN m - 2^8 ELSE m
ToUint8(v) == v % 2^8

conditions_init ==
    [temperature |-> 0, wind_speed |-> 0, wind_dir |-> "", tide_height |-> ""]

TransportOk_any(resp) == resp.perform_ok

\* success of http_client_perform_request, then http_err == ESP_OK && response_data_size != 0
TransportOk(resp) ==
    resp.perform_ok /\ resp.http_err = "ESP_OK" /\ resp.response_data_size # 0

AnyFieldNull_never(temp, wind_speed, wind_dir, tide_height) == FALSE

AnyFieldNull_no_temp(temp, wind_speed, wind_dir, tide_height) ==
    wind_dir = NULLITEM \/ tide_height = NULLITEM \/ wind_speed = NULLITEM

\* wind_dir_object == NULL || tide_height_object == NULL || wind_speed_object == NULL ||
\* temperature_object == NULL
AnyFieldNull(temp, wind_speed, wind_dir, tide_height) ==
    wind_dir = NULLITEM \/ tide_height = NULLITEM \/ wind_speed = NULLITEM
        \/ temp = NULLITEM

ParseTemperature(obj) == IF cJSON_IsNumber(obj) THEN ToInt8(obj.valueint) ELSE -99
ParseWindSpeed(obj) == IF cJSON_IsNumber(obj) THEN ToUint8(obj.valueint) ELSE 99
ParseWindDir(obj) == IF cJSON_IsString(obj) THEN obj.valuestring ELSE "X"
ParseTideHeight(obj) == IF cJSON_IsString(obj) THEN obj.valuestring ELSE "?"

\* the result and the snapshot left behind
conditions_refresh(resp, snap) ==
    LET data_value == GetData(resp)
        temperature_object == cJSON_GetObjectItem(data_value, "temp")
        wind_speed_object == cJSON_GetObjectItem(data_value, "wind_speed")
        wind_dir_object == cJSON_GetObjectItem(data_value, "wind_dir")
        tide_height_object == cJSON_GetObjectItem(data_value, "tide_height")
    IN  IF ~TransportOk(resp) THEN [success |-> FALSE, snapshot |-> snap]
        ELSE IF AnyFieldNull(temperature_object, wind_speed_object, wind_dir_object,
                             tide_height_object)
             THEN [success |-> FALSE, snapshot |-> snap]
        ELSE [success |-> TRUE,
              snapshot |-> [temperature |-> ParseTemperature(temperature_object),
                            wind_speed |-> ParseWindSpeed(wind_speed_object),
                            wind_dir |-> ParseWindDir(wind_dir_object),
                            tide_height |-> ParseTideHeight(tide_height_object)]]

(***************************************************************************)
(* Responses the transport and the server can give.                        *)
(***************************************************************************)
TempItems == {NULLITEM, Item("Number", 72, ""), Item("Number", 200, ""),
              Item("String", 0, "warm")}
WindSpeedItems == {NULLITEM, Item("Number", 12, ""), Item("Number", 300, ""),
                   Item("String", 0, "gale")}
WindDirItems == {NULLITEM, Item("String", 0, "NW"), Item("Number", 5, "")}
TideHeightItems == {NULLITEM, Item("String", 0, "2.1"), Item("Number", 2, "")}

DataObjects ==
    {[k \in FieldNames |->
        CASE k = "temp" -> t [] k = "wind_speed" -> w [] k = "wind_dir" -> d
          [] OTHER -> h] :
        t \in TempItems, w \in WindSpeedItems, d \in WindDirItems, h \in TideHeightItems}

GoodData ==
    [k \in FieldNames |->
        CASE k = "temp" -> Item("Number", 72, "") [] k = "wind_speed" -> Item("Number", 12, "")
          [] k = "wind_dir" -> Item("String", 0, "NW") [] OTHER -> Item("String", 0, "2.1")]

Resp(p, e, n, j, dp, d) ==
    [perform_ok |-> p, http_err |-> e, response_data_size |-> n, json_parsed |-> j,
     data_present |-> dp, data |-> d]

NoResponse == Resp(FALSE, "ESP_FAIL", 0, FALSE, FALSE, [k \in FieldNames |-> NULLITEM])

\* transport failures: the request failed, the read failed, nothing was read
TransportFailures ==
    {Resp(FALSE, "ESP_OK", 1, TRUE, TRUE, GoodData),
     Resp(TRUE, "ESP_FAIL", 1, TRUE, TRUE, GoodData),
     Resp(TRUE, "ESP_FAIL", 0, FALSE, FALSE, GoodData),
     Resp(TRUE, "ESP_OK", 0, FALSE, FALSE, GoodData)}

\* a body that is no JSON, and a JSON document with no data object
NoDataResponses ==
    {Resp(TRUE, "ESP_OK", 1, FALSE, FALSE, GoodData),
     Resp(TRUE, "ESP_OK", 1, TRUE, FALSE, GoodData)}

DataResponses == {Resp(TRUE, "ESP_OK", 1, TRUE, TRUE, d) : d \in DataObjects}

Responses == TransportFailures \cup NoDataResponses \cup DataResponses

\* the responses of the full-system specification
SysResponses ==
    {Resp(TRUE, "ESP_FAIL", 0, FALSE, FALSE, GoodData),
     Resp(TRUE, "ESP_OK", 1, TRUE, FALSE, GoodData),
     Resp(TRUE, "ESP_OK", 1, TRUE, TRUE, GoodData)}

(***************************************************************************)
(* conditions_update_task: the sections of one dispatch pass.  Each call   *)
(* of a collaborator is logged as <<function, argument>>.                  *)
(***************************************************************************)
Call(fn, arg) == <<fn, arg>>

When(cond, seq) == IF cond THEN seq ELSE <<>>

FullClear_with_time(bits) ==
    Has(bits, UPDATE_SPOT_NAME_BIT) /\ Has(bits, UPDATE_TIME_BIT)
        /\ Has(bits, UPDATE_CONDITIONS_BIT) /\ Has(bits, UPDATE_TIDE_CHART_BIT)
        /\ Has(bits, UPDATE_SWELL_CHART_BIT)

FullClear_any(bits) ==
    Has(bits, UPDATE_SPOT_NAME_BIT) \/ Has(bits, UPDATE_CONDITIONS_BIT)
        \/ Has(bits, UPDATE_TIDE_CHART_BIT) \/ Has(bits, UPDATE_SWELL_CHART_BIT)

\* full_clear = (update_bits & UPDATE_SPOT_NAME_BIT) && (update_bits & UPDATE_SPOT_NAME_BIT) && ...
FullClear(bits) ==
    Has(bits, UPDATE_SPOT_NAME_BIT) /\ Has(bits, UPDATE_SPOT_NAME_BIT)
        /\ Has(bits, UPDATE_CONDITIONS_BIT) /\ Has(bits, UPDATE_TIDE_CHART_BIT)
        /\ Has(bits, UPDATE_SWELL_CHART_BIT)

\* network update section
NetworkCalls(bits) ==
    When(Has(bits, UPDATE_CONDITIONS_BIT),
         <<Call("sleep_handler_set_busy", "SYSTEM_IDLE_CONDITIONS_BIT"),
           Call("conditions_refresh", ""),
           Call("sleep_handler_set_idle", "SYSTEM_IDLE_CONDITIONS_BIT")>>)
    \o When(Has(bits, UPDATE_TIDE_CHART_BIT),
         <<Call("sleep_handler_set_busy", "SYSTEM_IDLE_TIDE_CHART_BIT"),
           Call("screen_img_handler_download_and_save", "SCREEN_IMG_TIDE_CHART"),
           Call("sleep_handler_set_idle", "SYSTEM_IDLE_TIDE_CHART_BIT")>>)
    \o When(Has(bits, UPDATE_SWELL_CHART_BIT),
         <<Call("sleep_handler_set_busy", "SYSTEM_IDLE_SWELL_CHART_BIT"),
           Call("screen_img_handler_download_and_save", "SCREEN_IMG_SWELL_CHART"),
           Call("sleep_handler_set_idle", "SYSTEM_IDLE_SWELL_CHART_BIT")>>)
    \o When(Has(bits, CHECK_OTA_BIT), <<Call("ota_task_start", "")>>)

ConditionsDrawCalls_leak(fc, success) ==
    <<Call("sleep_handler_set_busy", "SYSTEM_IDLE_CONDITIONS_BIT")>>
    \o When(~fc, <<Call("screen_img_handler_clear_conditions", "true,true,true")>>)
    \o (IF success
        THEN <<Call("screen_img_handler_draw_conditions", "last_retrieved_conditions"),
               Call("sleep_handler_set_idle", "SYSTEM_IDLE_CONDITIONS_BIT")>>
        ELSE <<Call("screen_img_handler_draw_conditions_error", "")>>)

ConditionsDrawCalls_no_clear_on_failure(fc, success) ==
    <<Call("sleep_handler_set_busy", "SYSTEM_IDLE_CONDITIONS_BIT")>>
    \o When(~fc /\ success, <<Call("screen_img_handler_clear_conditions", "true,true,true")>>)
    \o (IF success
        THEN <<Call("screen_img_handler_draw_conditions", "last_retrieved_conditions")>>
        ELSE <<Call("screen_img_handler_draw_conditions_error", "")>>)
    \o <<Call("sleep_handler_set_idle", "SYSTEM_IDLE_CONDITIONS_BIT")>>

\* the body of the second if (update_bits & UPDATE_CONDITIONS_BIT)
ConditionsDrawCalls(fc, success) ==
    <<Call("sleep_handler_set_busy", "SYSTEM_IDLE_CONDITIONS_BIT")>>
    \o When(~fc, <<Call("screen_img_handler_clear_conditions", "true,true,true")>>)
    \o (IF success
        THEN <<Call("screen_img_handler_draw_conditions", "last_retrieved_conditions")>>
        ELSE <<Call("screen_img_handler_draw_conditions_error", "")>>)
    \o <<Call("sleep_handler_set_idle", "SYSTEM_IDLE_CONDITIONS_BIT")>>

\* framebuffer update section
FramebufferCalls(bits, fc, success) ==
    When(fc, <<Call("screen_img_handler_full_clear", "")>>)
    \o When(Has(bits, UPDATE_TIME_BIT),
         <<Call("sleep_handler_set_busy", "SYSTEM_IDLE_TIME_BIT")>>
         \o When(~fc, <<Call("screen_img_handler_clear_time", ""),
                        Call("screen_img_handler_clear_date", "false")>>)
         \o <<Call("screen_img_handler_draw_time", ""),
              Call("screen_img_handler_draw_date", ""),
              Call("sleep_handler_set_idle", "SYSTEM_IDLE_TIME_BIT")>>)
    \o When(Has(bits, UPDATE_SPOT_NAME_BIT),
         <<Call("sleep_handler_set_busy", "SYSTEM_IDLE_CONDITIONS_BIT")>>
         \o When(~fc, <<Call("screen_img_handler_clear_spot_name", "")>>)
         \o <<Call("screen_img_handler_draw_spot_name", "spot_name"),
              Call("sleep_handler_set_idle", "SYSTEM_IDLE_CONDITIONS_BIT")>>)
    \o When(Has(bits, UPDATE_CONDITIONS_BIT), ConditionsDrawCalls(fc, success))
    \o When(Has(bits, UPDATE_TIDE_CHART_BIT),
         <<Call("sleep_handler_set_busy", "SYSTEM_IDLE_TIDE_CHART_BIT")>>
         \o When(~fc, <<Call("screen_img_handler_clear_screen_img", "SCREEN_IMG_TIDE_CHART")>>)
         \o <<Call("screen_img_handler_draw_screen_img", "SCREEN_IMG_TIDE_CHART"),
              Call("sleep_handler_set_idle", "SYSTEM_IDLE_TIDE_CHART_BIT")>>)
    \o When(Has(bits, UPDATE_SWELL_CHART_BIT),
         <<Call("sleep_handler_set_busy", "SYSTEM_IDLE_SWELL_CHART_BIT")>>
         \o When(~fc, <<Call("screen_img_handler_clear_screen_img", "SCREEN_IMG_SWELL_CHART")>>)
         \o <<Call("screen_img_handler_draw_screen_img", "SCREEN_IMG_SWELL_CHART"),
              Call("sleep_handler_set_idle", "SYSTEM_IDLE_SWELL_CHART_BIT")>>)

RenderCalls_render_first(bits) ==
    When(bits # 0,
         <<Call("screen_img_handler_render", "")>>
         \o When(BitAnd(bits, BitNot(UPDATE_TIME_BIT)) # 0,
                 <<Call("screen_img_handler_mark_all_lines_dirty", "")>>))

RenderCalls_always_dirty(bits) ==
    When(bits # 0,
         <<Call("screen_img_handler_mark_all_lines_dirty", ""),
           Call("screen_img_handler_render", "")>>)

\* render section
RenderCalls(bits) ==
    When(bits # 0,
         When(BitAnd(bits, BitNot(UPDATE_TIME_BIT)) # 0,
              <<Call("screen_img_handler_mark_all_lines_dirty", "")>>)
         \o <<Call("screen_img_handler_render", "")>>)

ZeroCounts == [b \in Bits |-> 0]

(***************************************************************************)
(* Initial state: the task has been created, nothing has run yet.          *)
(***************************************************************************)
InitAt(bootSet, tables, notified, position) ==
    /\ clock \in bootSet
    /\ boot = clock
    /\ ticks = 0
    /\ sinceFired = [i \in DiffIdx |-> 0]
    /\ differential_updates = differential_updates_init
    /\ discrete_updates \in tables
    /\ pending \in notified
    /\ pc = position
    /\ update_bits = 0
    /\ full_clear = FALSE
    /\ conditions_success = FALSE
    /\ last_retrieved_conditions = conditions_init
    /\ calls = <<>>
    /\ diffFired = {}
    /\ discFired = {}
    /\ prevDiff = differential_updates_init
    /\ dayCount = [i \in DiscIdx |-> 0]
    /\ minCount = [i \in DiscIdx |-> 0]
    /\ raisedSince = RaiseCounts(ZeroCounts, <<pending>>)
    /\ wokenRaises = ZeroCounts
    /\ raisers = {}
    /\ wokenRaisers = {}
    /\ nraises = 0
    /\ npasses = 0
    /\ lastResponse = NoResponse
    /\ prevConditions = conditions_init
    /\ refreshResult = "none"

(***************************************************************************)
(* Actions of the task.                                                    *)
(***************************************************************************)
\* timer_init, timer_reset: the one-second timer runs from here on
TaskStart ==
    /\ pc = "start"
    /\ pc' = "wifi"
    /\ UNCHANGED <<update_bits, full_clear, conditions_success, calls, npasses>>
    /\ UNCHANGED <<pending, raisedSince, wokenRaises, raisers, wokenRaisers, nraises, boot>>
    /\ UNCHANGED tickVars
    /\ UNCHANGED fetchVars

PendingAfterConnected_cleared(value) == 0

\* wifi_block_until_connected does not read or write the task's notification value
PendingAfterConnected(value) == value

\* wifi_block_until_connected returns
WifiConnected ==
    /\ pc = "wifi"
    /\ pc' = "wait"
    /\ pending' = PendingAfterConnected(pending)
    /\ UNCHANGED <<update_bits, full_clear, conditions_success, calls, npasses>>
    /\ UNCHANGED <<raisedSince, wokenRaises, raisers, wokenRaisers, nraises, boot>>
    /\ UNCHANGED tickVars
    /\ UNCHANGED fetchVars

\* xTaskNotifyWait(0x0, UINT32_MAX, &update_bits, portMAX_DELAY) returns; full_clear
Wake ==
    /\ pc = "wait"
    /\ pending # 0
    /\ update_bits' = pending
    /\ pending' = xTaskNotifyWait(pending, UINT32_MAX)
    /\ full_clear' = FullClear(pending)
    /\ calls' = <<>>
    /\ wokenRaises' = raisedSince
    /\ raisedSince' = ZeroCounts
    /\ wokenRaisers' = raisers
    /\ raisers' = {}
    /\ npasses' = npasses + 1
    /\ pc' = "network"
    /\ UNCHANGED <<conditions_success, nraises, boot>>
    /\ UNCHANGED tickVars
    /\ UNCHANGED fetchVars

RefreshWith(resp) ==
    LET r == conditions_refresh(resp, last_retrieved_conditions)
    IN /\ last_retrieved_conditions' = r.snapshot
       /\ lastResponse' = resp
       /\ prevConditions' = last_retrieved_conditions
       /\ refreshResult' = IF r.success THEN "success" ELSE "failure"

ConditionsSuccessAfter_sticky(old, result) == old \/ result

\* conditions_success = conditions_refresh(): the local declared before the
\* loop is overwritten by every fetch
ConditionsSuccessAfter(old, result) == result

NetworkDone_abort(bits, success) ==
    IF Has(bits, UPDATE_CONDITIONS_BIT) /\ ~success THEN "stopped" ELSE "framebuffer"

\* the return value of conditions_refresh is only stored: whatever it is,
\* control falls through to the framebuffer update section
NetworkDone(bits, success) == "framebuffer"

NetworkSectionOf(responses) ==
    /\ IF Has(update_bits, UPDATE_CONDITIONS_BIT)
       THEN \E resp \in responses :
                /\ RefreshWith(resp)
                /\ conditions_success' =
                       ConditionsSuccessAfter(conditions_success,
                           conditions_refresh(resp, last_retrieved_conditions).success)
       ELSE UNCHANGED <<conditions_success, last_retrieved_conditions, lastResponse,
                        prevConditions, refreshResult>>
    /\ calls' = calls \o NetworkCalls(update_bits)
    /\ pc' = NetworkDone(update_bits, conditions_success')
    /\ UNCHANGED <<update_bits, full_clear, npasses>>
    /\ UNCHANGED <<pending, raisedSince, wokenRaises, raisers, wokenRaisers, nraises, boot>>
    /\ UNCHANGED tickVars

FramebufferSection ==
    /\ pc = "framebuffer"
    /\ calls' = calls \o FramebufferCalls(update_bits, full_clear, conditions_success)
    /\ pc' = "render"
    /\ UNCHANGED <<update_bits, full_clear, conditions_success, npasses>>
    /\ UNCHANGED <<pending, raisedSince, wokenRaises, raisers, wokenRaisers, nraises, boot>>
    /\ UNCHANGED tickVars
    /\ UNCHANGED fetchVars

RenderSection ==
    /\ pc = "render"
    /\ calls' = calls \o RenderCalls(update_bits)
    /\ pc' = "wait"
    /\ UNCHANGED <<update_bits, full_clear, conditions_success, npasses>>
    /\ UNCHANGED <<pending, raisedSince, wokenRaises, raisers, wokenRaisers, nraises, boot>>
    /\ UNCHANGED tickVars
    /\ UNCHANGED fetchVars

(***************************************************************************)
(* The exposed raise functions, called from any other context.             *)
(***************************************************************************)
Raise(name, bits) ==
    /\ pending' = xTaskNotify(pending, bits)
    /\ raisedSince' = RaiseCounts(raisedSince, <<bits>>)
    /\ raisers' = raisers \cup {name}
    /\ nraises' = nraises + 1
    /\ UNCHANGED boot
    /\ UNCHANGED tickVars
    /\ UNCHANGED taskVars
    /\ UNCHANGED fetchVars

TriggerTime ==
    /\ nraises < MaxRaises
    /\ Raise("conditions_trigger_time_update", conditions_trigger_time_update)
TriggerSpotName ==
    /\ nraises < MaxRaises
    /\ Raise("conditions_trigger_spot_name_update", conditions_trigger_spot_name_update)
TriggerConditions ==
    /\ nraises < MaxRaises
    /\ Raise("conditions_trigger_conditions_update", conditions_trigger_conditions_update)
TriggerTideChart ==
    /\ nraises < MaxRaises
    /\ Raise("conditions_trigger_tide_chart_update", conditions_trigger_tide_chart_update)
TriggerSwellChart ==
    /\ nraises < MaxRaises
    /\ Raise("conditions_trigger_swell_chart_update", conditions_trigger_swell_chart_update)
TriggerBothCharts ==
    /\ nraises < MaxRaises
    /\ Raise("conditions_trigger_both_charts_update", conditions_trigger_both_charts_update)

(***************************************************************************)
(* Specifications.                                                         *)
(***************************************************************************)
\* the full system: timer, external callers and the task
Init == InitAt({0}, {discrete_updates_init}, {0}, "start")

Tick ==
    /\ pc # "start"
    /\ conditions_timer_expired_callback(MaxTicks)

NetworkSection ==
    /\ pc = "network"
    /\ NetworkSectionOf(SysResponses)

Next ==
    \/ Tick
    \/ TaskStart
    \/ WifiConnected
    \/ Wake
    \/ NetworkSection
    \/ FramebufferSection
    \/ RenderSection
    \/ TriggerTime
    \/ TriggerSpotName
    \/ TriggerConditions
    \/ TriggerTideChart
    \/ TriggerSwellChart
    \/ TriggerBothCharts

Spec == Init /\ [][Next]_vars

\* one response of each outcome of conditions_refresh: transport failure,
\* no data object, a missing field, a field of the wrong type, all fields good
OutcomeResponses ==
    {Resp(TRUE, "ESP_FAIL", 0, FALSE, FALSE, GoodData),
     Resp(TRUE, "ESP_OK", 1, TRUE, FALSE, GoodData),
     Resp(TRUE, "ESP_OK", 1, TRUE, TRUE, [GoodData EXCEPT !["temp"] = NULLITEM]),
     Resp(TRUE, "ESP_OK", 1, TRUE, TRUE, [GoodData EXCEPT !["temp"] = Item("String", 0, "warm")]),
     Resp(TRUE, "ESP_OK", 1, TRUE, TRUE, GoodData)}

LiveNetwork ==
    /\ pc = "network"
    /\ NetworkSectionOf(OutcomeResponses)

NextLive ==
    \/ Tick
    \/ TaskStart
    \/ WifiConnected
    \/ Wake
    \/ LiveNetwork
    \/ FramebufferSection
    \/ RenderSection
    \/ TriggerTime
    \/ TriggerConditions

\* the timer alone under a time source that is corrected once: the local
\* time the next callback reads steps back by 90 s or an hour (time sync,
\* local-time change), or forward by an hour
ClockSteps == {-(MINS_PER_HOUR * SECS_PER_MIN), SECS_PER_MIN + 30, MINS_PER_HOUR * SECS_PER_MIN}

InitJump ==
    /\ InitAt({2 * 3600 + 59 * 60 + 30}, {discrete_updates_init}, {0}, "wifi")

JumpTick ==
    /\ pc = "wifi"
    /\ conditions_timer_expired_callback(MaxJumpTicks)

ClockStepped == clock # boot + ticks

\* sntp_time_get_local_time starts to return a corrected time
ClockStep ==
    /\ pc = "wifi"
    /\ ticks >= 1
    /\ ticks < MaxJumpTicks
    /\ ~ClockStepped
    /\ \E back \in ClockSteps : clock' = clock - back
    /\ UNCHANGED <<boot, ticks, sinceFired, differential_updates, discrete_updates, diffFired,
                   discFired, prevDiff, dayCount, minCount>>
    /\ UNCHANGED <<pending, raisedSince, raisers, nraises>>
    /\ UNCHANGED taskVars
    /\ UNCHANGED fetchVars

NextJump ==
    \/ JumpTick
    \/ ClockStep

SpecJump == InitJump /\ [][NextJump]_vars

\* startup: the timer and the external callers raise bits only while the
\* task has not yet come back from wifi_block_until_connected
StartupTick ==
    /\ pc = "wifi"
    /\ conditions_timer_expired_callback(MaxTicks)

StartupRaise ==
    /\ pc \in {"start", "wifi"}
    /\ \/ TriggerTime
       \/ TriggerSpotName
       \/ TriggerConditions
       \/ TriggerTideChart
       \/ TriggerSwellChart
       \/ TriggerBothCharts

NextStartup ==
    \/ TaskStart
    \/ StartupTick
    \/ StartupRaise
    \/ WifiConnected
    \/ Wake
    \/ NetworkSection
    \/ FramebufferSection
    \/ RenderSection

SpecStartup == Init /\ [][NextStartup]_vars

\* every collaborator call returns and the scheduler is fair: a section that
\* can run eventually does
SpecLive ==
    /\ Init
    /\ [][NextLive]_vars
    /\ WF_vars(LiveNetwork)
    /\ WF_vars(FramebufferSection)
    /\ WF_vars(RenderSection)

\* the timer alone, the task started and waiting for connectivity
BootTimes ==
    {0,
     58 * 60 + 30,
     2 * 3600 + 59 * 60 + 30,
     11 * 3600 + 59 * 60 + 30,
     16 * 3600 + 59 * 60 + 30,
     20 * 3600 + 59 * 60 + 30,
     23 * 3600 + 59 * 60 + 30}

InitClock ==
    /\ InitAt(BootTimes, {discrete_updates_init}, {0}, "wifi")

ClockTick ==
    /\ pc = "wifi"
    /\ conditions_timer_expired_callback(MaxClockTicks)

NextClock == ClockTick

SpecClock == InitClock /\ [][NextClock]_vars

\* the timer alone for more than a day, from just before the tide entry's
\* minute and from the last second before the swell_morning entry's minute
DayBootTimes ==
    {2 * 3600 + 59 * 60 + 30,
     11 * 3600 + 59 * 60 + 59}

InitDay ==
    /\ InitAt(DayBootTimes, {discrete_updates_init}, {0}, "wifi")

DayTick ==
    /\ pc = "wifi"
    /\ conditions_timer_expired_callback(MaxDayTicks)

NextDay == DayTick

SpecDay == InitDay /\ [][NextDay]_vars

\* the timer alone over a table whose first entry carries wildcard fields
WildTables ==
    {[discrete_updates_init EXCEPT ![1] = DiscEntry(h, m)] :
        h \in {WILDCARD, 3}, m \in {WILDCARD, 0}}

InitWild ==
    /\ InitAt(BootTimes, WildTables, {0}, "wifi")

WildTick ==
    /\ pc = "wifi"
    /\ conditions_timer_expired_callback(MaxClockTicks)

NextWild == WildTick

SpecWild == InitWild /\ [][NextWild]_vars

\* one dispatch pass from every value of the six update bits
InitPass ==
    /\ InitAt({0}, {discrete_updates_init}, 1..(2^6 - 1), "wait")

PassWake ==
    /\ npasses = 0
    /\ Wake

PassNetwork ==
    /\ pc = "network"
    /\ NetworkSectionOf(SysResponses)

PassFramebuffer ==
    /\ npasses = 1
    /\ FramebufferSection

PassRender ==
    /\ npasses = 1
    /\ RenderSection

NextPass ==
    \/ PassWake
    \/ PassNetwork
    \/ PassFramebuffer
    \/ PassRender

SpecPass == InitPass /\ [][NextPass]_vars

\* conditions_refresh alone, on every response
InitFetch ==
    /\ InitAt({0}, {discrete_updates_init}, {0}, "start")

RefreshCall ==
    /\ pc = "start"
    /\ \E resp \in Responses : RefreshWith(resp)
    /\ UNCHANGED <<pending, raisedSince, raisers, nraises, boot>>
    /\ UNCHANGED tickVars
    /\ UNCHANGED taskVars

NextFetch == RefreshCall

SpecFetch == InitFetch /\ [][NextFetch]_vars

(***************************************************************************)
(* Vocabulary of the properties.                                           *)
(***************************************************************************)
\* time read by the last timer callback
LastTickTime == clock - 1

\* the single bits of a notification value, read off its binary digits
BitSet(x) == {b \in Bits : (x \div b) % 2 = 1}

\* the task has completed a pass and blocks in xTaskNotifyWait
PassDone == pc = "wait" /\ npasses >= 1

CallCount(fn) == Cardinality({k \in 1..Len(calls) : calls[k][1] = fn})
CallCountArg(fn, arg) == Cardinality({k \in 1..Len(calls) : calls[k] = <<fn, arg>>})

IsPowerCall(c) == c[1] \in {"sleep_handler_set_busy", "sleep_handler_set_idle"}
WorkCalls == SelectSeq(calls, LAMBDA c : ~IsPowerCall(c))

RegionClearFns ==
    {"screen_img_handler_clear_time", "screen_img_handler_clear_date",
     "screen_img_handler_clear_spot_name", "screen_img_handler_clear_conditions",
     "screen_img_handler_clear_screen_img"}
RegionClearCount == Cardinality({k \in 1..Len(calls) : calls[k][1] \in RegionClearFns})

(***************************************************************************)
(* C1: every differential entry (time, conditions, ota) fires on the first *)
(* tick, and on every later tick it fires exactly when now - last_run is   *)
(* strictly greater than its interval.                                     *)
(***************************************************************************)
C1_AllDifferentialEntriesFire ==
    \A i \in DiffIdx :
        /\ (ticks = 1 => i \in diffFired)
        /\ (ticks > 1 =>
               (i \in diffFired <=>
                   (LastTickTime - prevDiff[i].last_executed_epoch_secs) > DiffInterval(i)))

(***************************************************************************)
(* C2: every discrete entry with a concrete hour and minute (tide,         *)
(* swell_morning, swell_midday, swell_evening) fires exactly once a day,   *)
(* at its matching hour:minute: after the boot tick it fires only on a     *)
(* tick of its matching minute, and by the last second of a matching       *)
(* minute the ticks have run through it has fired exactly once in it.      *)
(***************************************************************************)
C2_DiscreteOncePerDayAtMatch ==
    \A i \in DiscIdx :
        LET e == discrete_updates[i]
            atMatch == tm_hour(LastTickTime) = e.hour /\ tm_min(LastTickTime) = e.minute
        IN  /\ (ticks > 1 /\ i \in discFired => atMatch)
            /\ (ticks >= SECS_PER_MIN /\ atMatch /\ tm_sec(LastTickTime) = SECS_PER_MIN - 1
                  => minCount[i] = 1)

C4_FirstPassIsFullClear ==
    (PassDone /\ npasses = 1 /\ nraises = 0) =>
        /\ full_clear
        /\ CallCount("screen_img_handler_full_clear") = 1
        /\ RegionClearCount = 0
        /\ CallCount("screen_img_handler_render") = 1

(***************************************************************************)
(* C5: when a bit is raised two or more times between two wakes, the next  *)
(* pass runs that bit's fetch and its draw exactly once, and the duplicate *)
(* causes no further pass: a bit is pending only if it was raised after    *)
(* the last wake read the notification value.                              *)
(***************************************************************************)
FetchOnce(b) ==
    CASE b = UPDATE_CONDITIONS_BIT -> CallCount("conditions_refresh") = 1
      [] b = UPDATE_TIDE_CHART_BIT ->
            CallCountArg("screen_img_handler_download_and_save", "SCREEN_IMG_TIDE_CHART") = 1
      [] b = UPDATE_SWELL_CHART_BIT ->
            CallCountArg("screen_img_handler_download_and_save", "SCREEN_IMG_SWELL_CHART") = 1
      [] b = CHECK_OTA_BIT -> CallCount("ota_task_start") = 1
      [] OTHER -> TRUE

DrawOnce(b) ==
    CASE b = UPDATE_CONDITIONS_BIT ->
            CallCount("screen_img_handler_draw_conditions")
                + CallCount("screen_img_handler_draw_conditions_error") = 1
      [] b = UPDATE_TIDE_CHART_BIT ->
            CallCountArg("screen_img_handler_draw_screen_img", "SCREEN_IMG_TIDE_CHART") = 1
      [] b = UPDATE_SWELL_CHART_BIT ->
            CallCountArg("screen_img_handler_draw_screen_img", "SCREEN_IMG_SWELL_CHART") = 1
      [] b = UPDATE_TIME_BIT ->
            /\ CallCount("screen_img_handler_draw_time") = 1
            /\ CallCount("screen_img_handler_draw_date") = 1
      [] b = UPDATE_SPOT_NAME_BIT -> CallCount("screen_img_handler_draw_spot_name") = 1
      [] OTHER -> TRUE

C5_DuplicateRaisesCollapse ==
    /\ PassDone =>
          \A b \in Bits : wokenRaises[b] >= 2 => (FetchOnce(b) /\ DrawOnce(b))
    /\ \A b \in Bits : b \in BitSet(pending) => raisedSince[b] >= 1

C5_Witness ==
    /\ PassDone
    /\ wokenRaises[UPDATE_CONDITIONS_BIT] >= 2
    /\ "conditions_trigger_conditions_update" \in wokenRaisers
    /\ pending = 0

(***************************************************************************)
(* C6: for every woken bit set, full_clear is true exactly when the set    *)
(* contains spot-name, conditions, tide-chart and swell-chart; the time    *)
(* and firmware-check bits have no influence.                              *)
(***************************************************************************)
C6_FullClearIffAllFour ==
    npasses >= 1 =>
        (full_clear <=>
            {UPDATE_SPOT_NAME_BIT, UPDATE_CONDITIONS_BIT, UPDATE_TIDE_CHART_BIT,
             UPDATE_SWELL_CHART_BIT} \subseteq BitSet(update_bits))

C6_Witness ==
    /\ npasses = 1
    /\ full_clear
    /\ BitSet(update_bits) = {UPDATE_SPOT_NAME_BIT, UPDATE_CONDITIONS_BIT,
                              UPDATE_TIDE_CHART_BIT, UPDATE_SWELL_CHART_BIT}

(***************************************************************************)
(* C7: a pass woken by conditions_trigger_conditions_update alone runs     *)
(* only the conditions fetch, no full-screen clear, clears only the        *)
(* conditions region, draws the snapshot or the error, marks all lines     *)
(* dirty and renders once.                                                 *)
(***************************************************************************)
C7_ManualConditionsPass ==
    (PassDone /\ wokenRaisers = {"conditions_trigger_conditions_update"}) =>
        /\ update_bits = UPDATE_CONDITIONS_BIT
        /\ ~full_clear
        /\ WorkCalls =
              <<Call("conditions_refresh", ""),
                Call("screen_img_handler_clear_conditions", "true,true,true"),
                IF refreshResult = "success"
                THEN Call("screen_img_handler_draw_conditions", "last_retrieved_conditions")
                ELSE Call("screen_img_handler_draw_conditions_error", ""),
                Call("screen_img_handler_mark_all_lines_dirty", ""),
                Call("screen_img_handler_render", "")>>

C7_Witness ==
    /\ PassDone
    /\ wokenRaisers = {"conditions_trigger_conditions_update"}
    /\ refreshResult = "success"

(***************************************************************************)
(* Vocabulary of the fetch properties, read off the response itself.       *)
(***************************************************************************)
Refreshed == refreshResult # "none"

TransportFailed(resp) ==
    ~resp.perform_ok \/ resp.http_err # "ESP_OK" \/ resp.response_data_size = 0

HasDataObject(resp) == resp.json_parsed /\ resp.data_present

MissingTempOnly(resp) ==
    /\ ~TransportFailed(resp)
    /\ HasDataObject(resp)
    /\ resp.data["temp"].type = "absent"
    /\ resp.data["wind_speed"].type = "Number"
    /\ resp.data["wind_dir"].type = "String"
    /\ resp.data["tide_height"].type = "String"

SnapshotUnchanged == last_retrieved_conditions = prevConditions

(***************************************************************************)
(* C8 as stated: a response whose data object lacks temp, the other three  *)
(* fields well-typed, gives success with temperature -99 and the other     *)
(* three fields taken from the response.                                   *)
(***************************************************************************)
C8_MissingTempIsSuccess ==
    (Refreshed /\ MissingTempOnly(lastResponse)) =>
        /\ refreshResult = "success"
        /\ last_retrieved_conditions.temperature = -99
        /\ last_retrieved_conditions.wind_speed = lastResponse.data["wind_speed"].valueint
        /\ last_retrieved_conditions.wind_dir = lastResponse.data["wind_dir"].valuestring
        /\ last_retrieved_conditions.tide_height = lastResponse.data["tide_height"].valuestring

(***************************************************************************)
(* C8 amended: a response whose data object lacks temp, the other three    *)
(* fields well-typed, gives failure and leaves the snapshot unchanged.     *)
(***************************************************************************)
C8_MissingTempIsFailure ==
    (Refreshed /\ MissingTempOnly(lastResponse)) =>
        (refreshResult = "failure" /\ SnapshotUnchanged)

C8_Witness ==
    /\ Refreshed
    /\ MissingTempOnly(lastResponse)
    /\ prevConditions # conditions_init

(***************************************************************************)
(* C9: on a transport failure (the request fails, the read fails or reads  *)
(* zero bytes) conditions_refresh returns failure and the snapshot keeps   *)
(* its four fields.                                                        *)
(***************************************************************************)
C9_TransportFailureKeepsSnapshot ==
    (Refreshed /\ TransportFailed(lastResponse)) =>
        (refreshResult = "failure" /\ SnapshotUnchanged)

C9_Witness ==
    /\ Refreshed
    /\ TransportFailed(lastResponse)
    /\ lastResponse.perform_ok
    /\ prevConditions # conditions_init

(***************************************************************************)
(* C10: when the transport succeeds and the response has no data object,   *)
(* conditions_refresh returns failure and the snapshot keeps its four      *)
(* fields.                                                                 *)
(***************************************************************************)
C10_NoDataObjectIsFailure ==
    (Refreshed /\ ~TransportFailed(lastResponse) /\ ~HasDataObject(lastResponse)) =>
        (refreshResult = "failure" /\ SnapshotUnchanged)

C10_Witness ==
    /\ Refreshed
    /\ ~TransportFailed(lastResponse)
    /\ ~HasDataObject(lastResponse)
    /\ prevConditions # conditions_init

(***************************************************************************)
(* C11: when all four fields are present in a successful response,         *)
(* conditions_refresh returns success, and each field of the snapshot is   *)
(* the response value if the field is well-typed and its sentinel (-99,    *)
(* 99, "X", "?") if it is not, independently of the other fields.          *)
(***************************************************************************)
AllFieldsPresent(resp) ==
    /\ ~TransportFailed(resp)
    /\ HasDataObject(resp)
    /\ \A k \in FieldNames : resp.data[k].type # "absent"

C11_EachFieldValueOrSentinel ==
    (Refreshed /\ AllFieldsPresent(lastResponse)) =>
        LET d == lastResponse.data
        IN  /\ refreshResult = "success"
            /\ last_retrieved_conditions.temperature =
                  (IF d["temp"].type = "Number" THEN d["temp"].valueint ELSE -99)
            /\ last_retrieved_conditions.wind_speed =
                  (IF d["wind_speed"].type = "Number" THEN d["wind_speed"].valueint ELSE 99)
            /\ last_retrieved_conditions.wind_dir =
                  (IF d["wind_dir"].type = "String" THEN d["wind_dir"].valuestring ELSE "X")
            /\ last_retrieved_conditions.tide_height =
                  (IF d["tide_height"].type = "String" THEN d["tide_height"].valuestring
                   ELSE "?")

(***************************************************************************)
(* C12: for every power class, the set_busy and set_idle calls of a pass   *)
(* alternate, busy first, and every set_busy has its set_idle by the end   *)
(* of the section that made it, also when the conditions fetch fails; so   *)
(* no class is busy while the task blocks in xTaskNotifyWait.              *)
(***************************************************************************)
PowerClasses ==
    {"SYSTEM_IDLE_CONDITIONS_BIT", "SYSTEM_IDLE_TIDE_CHART_BIT",
     "SYSTEM_IDLE_SWELL_CHART_BIT", "SYSTEM_IDLE_TIME_BIT"}

PowerCallsOf(cls) == SelectSeq(calls, LAMBDA c : IsPowerCall(c) /\ c[2] = cls)

BusyClasses ==
    {cls \in PowerClasses :
        CallCountArg("sleep_handler_set_busy", cls) > CallCountArg("sleep_handler_set_idle", cls)}

C12_BusyIdleBracketed ==
    /\ \A cls \in PowerClasses :
          LET p == PowerCallsOf(cls)
          IN  /\ Len(p) % 2 = 0
              /\ \A k \in 1..Len(p) :
                    p[k][1] = (IF k % 2 = 1 THEN "sleep_handler_set_busy"
                               ELSE "sleep_handler_set_idle")
    /\ (pc = "wait" => BusyClasses = {})

C12_Witness ==
    /\ PassDone
    /\ refreshResult = "failure"
    /\ Has(update_bits, UPDATE_CONDITIONS_BIT)
    /\ Has(update_bits, UPDATE_SPOT_NAME_BIT)
    /\ Len(PowerCallsOf("SYSTEM_IDLE_CONDITIONS_BIT")) = 6

(***************************************************************************)
(* C13: under fair scheduling, a dispatch pass that has started always     *)
(* comes back to blocking in xTaskNotifyWait, whatever the conditions      *)
(* fetch returned: it neither leaves the loop nor hangs after a failure.   *)
(***************************************************************************)
InPass == pc \in {"network", "framebuffer", "render"}

C13_PassAlwaysReturnsToWait == InPass ~> (pc = "wait")

C13_Witness ==
    /\ pc = "wait"
    /\ npasses >= 2
    /\ Has(update_bits, UPDATE_CONDITIONS_BIT)
    /\ refreshResult = "failure"
    /\ lastResponse.data["temp"].type = "absent"

(***************************************************************************)
(* C14: no raise is lost, whenever it arrives.  The pending set holds      *)
(* exactly the bits raised since the last read-and-clear, also while a     *)
(* pass is executing, and the set a wake read holds exactly the bits       *)
(* raised between the previous read-and-clear and its own.                 *)
(***************************************************************************)
RaisedBits(counts) == {b \in Bits : counts[b] >= 1}

C14_NoRaiseLost ==
    /\ BitSet(pending) = RaisedBits(raisedSince)
    /\ (npasses >= 1 => BitSet(update_bits) = RaisedBits(wokenRaises))
    /\ (npasses = 0 => update_bits = 0)

\* a bit is raised again while the pass that services it is executing
C14_Witness ==
    /\ InPass
    /\ BitSet(pending) \cap BitSet(update_bits) # {}
    /\ raisers # {}

(***************************************************************************)
(* C15: each exposed raise function ORs exactly its own class bit into     *)
(* the pending set and leaves the other bits alone; raising a pending bit  *)
(* changes nothing; two raises commute; and the both-charts raise gives    *)
(* the pending set of the tide-chart raise followed by the swell-chart     *)
(* raise.                                                                  *)
(***************************************************************************)
RaiseValues ==
    {conditions_trigger_time_update, conditions_trigger_spot_name_update,
     conditions_trigger_conditions_update, conditions_trigger_tide_chart_update,
     conditions_trigger_swell_chart_update, conditions_trigger_both_charts_update}

\* a step of the raise function passing `value`, whose own class bits are `own`
RaisesExactly(value, own) ==
    /\ BitSet(pending') = BitSet(pending) \cup own
    /\ (own \subseteq BitSet(pending) => pending' = pending)
    /\ \A v \in RaiseValues :
          xTaskNotify(pending', v) = xTaskNotify(xTaskNotify(pending, v), value)

RaiseAlgebra ==
    /\ TriggerTime =>
          RaisesExactly(conditions_trigger_time_update, {UPDATE_TIME_BIT})
    /\ TriggerSpotName =>
          RaisesExactly(conditions_trigger_spot_name_update, {UPDATE_SPOT_NAME_BIT})
    /\ TriggerConditions =>
          RaisesExactly(conditions_trigger_conditions_update, {UPDATE_CONDITIONS_BIT})
    /\ TriggerTideChart =>
          RaisesExactly(conditions_trigger_tide_chart_update, {UPDATE_TIDE_CHART_BIT})
    /\ TriggerSwellChart =>
          RaisesExactly(conditions_trigger_swell_chart_update, {UPDATE_SWELL_CHART_BIT})
    /\ TriggerBothCharts =>
          /\ RaisesExactly(conditions_trigger_both_charts_update,
                           {UPDATE_TIDE_CHART_BIT, UPDATE_SWELL_CHART_BIT})
          /\ pending' = xTaskNotify(xTaskNotify(pending, conditions_trigger_tide_chart_update),
                                    conditions_trigger_swell_chart_update)

C15_RaiseAlgebra == [][RaiseAlgebra]_vars

\* the both-charts raise has run and some bit has been raised twice before a wake
C15_Witness ==
    /\ "conditions_trigger_both_charts_update" \in raisers
    /\ \E b \in Bits : raisedSince[b] >= 2
    /\ pending # 0

(***************************************************************************)
(* C16: the tick iterates the first count-1 entries of each table only.    *)
(* The last differential entry (ota) and the last discrete entry           *)
(* (swell_evening) are never evaluated: their actions are not invoked by   *)
(* any tick and their fields keep their initial values.                    *)
(***************************************************************************)
C16_LastEntriesUntouched ==
    /\ differential_updates[NUM_DIFFERENTIAL_UPDATES]
          = differential_updates_init[NUM_DIFFERENTIAL_UPDATES]
    /\ discrete_updates[NUM_DISCRETE_UPDATES] = discrete_updates_init[NUM_DISCRETE_UPDATES]
    /\ NUM_DIFFERENTIAL_UPDATES \notin diffFired
    /\ NUM_DISCRETE_UPDATES \notin discFired
    /\ CHECK_OTA_BIT \notin BitSet(pending)

\* a later tick at the time of swell_evening, the forced first run of both
\* last entries still outstanding
C16_Witness ==
    /\ ticks >= 2
    /\ tm_hour(LastTickTime) = discrete_updates_init[NUM_DISCRETE_UPDATES].hour
    /\ tm_min(LastTickTime) = discrete_updates_init[NUM_DISCRETE_UPDATES].minute
    /\ differential_updates[NUM_DIFFERENTIAL_UPDATES].force_next_update
    /\ discrete_updates[NUM_DISCRETE_UPDATES].force_next_update

(***************************************************************************)
(* C17: an iterated discrete entry fires at most once while hour and       *)
(* minute keep matching; the first tick that no longer matches clears      *)
(* executed_already, and the entry then fires on the first tick of the     *)
(* next matching minute.                                                   *)
(***************************************************************************)
TimeMatches(i, t) ==
    /\ discrete_time_matches(tm_hour(t), discrete_updates[i].hour)
    /\ discrete_time_matches(tm_min(t), discrete_updates[i].minute)

C17_OncePerMatchingRunThenRearm ==
    \A i \in DiscIterated :
        /\ (ticks >= 1 /\ TimeMatches(i, LastTickTime)) => minCount[i] <= 1
        /\ (ticks >= 2 /\ ~TimeMatches(i, LastTickTime)) => ~discrete_updates[i].executed_already
        /\ (ticks >= 3 /\ TimeMatches(i, LastTickTime) /\ ~TimeMatches(i, LastTickTime - 1))
              => (i \in discFired /\ discrete_updates[i].executed_already)
        /\ (ticks >= 2 /\ TimeMatches(i, LastTickTime) /\ TimeMatches(i, LastTickTime - 1))
              => (i \notin discFired /\ discrete_updates[i].executed_already)

\* the tide entry fires on the first tick of its minute on the second day,
\* having fired and been rearmed on the first
C17_Witness ==
    /\ ticks > SECS_PER_DAY
    /\ TimeMatches(1, LastTickTime)
    /\ tm_sec(LastTickTime) = 0
    /\ 1 \in discFired

(***************************************************************************)
(* C18: the actions of a pass occur in the fixed order conditions fetch,   *)
(* tide-chart download, swell-chart download, firmware-check start,        *)
(* full-screen clear, time/date draw, spot-name draw, conditions draw,     *)
(* tide-chart draw, swell-chart draw, mark-all-dirty, render.  So every    *)
(* fetch precedes every clear or draw, a full-screen clear precedes every  *)
(* draw, and render is the last action of the pass.                        *)
(***************************************************************************)
StepOf(c) ==
    CASE c[1] = "conditions_refresh" -> 1
      [] c = Call("screen_img_handler_download_and_save", "SCREEN_IMG_TIDE_CHART") -> 2
      [] c = Call("screen_img_handler_download_and_save", "SCREEN_IMG_SWELL_CHART") -> 3
      [] c[1] = "ota_task_start" -> 4
      [] c[1] = "screen_img_handler_full_clear" -> 5
      [] c[1] \in {"screen_img_handler_clear_time", "screen_img_handler_clear_date",
                   "screen_img_handler_draw_time", "screen_img_handler_draw_date"} -> 6
      [] c[1] \in {"screen_img_handler_clear_spot_name",
                   "screen_img_handler_draw_spot_name"} -> 7
      [] c[1] \in {"screen_img_handler_clear_conditions", "screen_img_handler_draw_conditions",
                   "screen_img_handler_draw_conditions_error"} -> 8
      [] c \in {Call("screen_img_handler_clear_screen_img", "SCREEN_IMG_TIDE_CHART"),
                Call("screen_img_handler_draw_screen_img", "SCREEN_IMG_TIDE_CHART")} -> 9
      [] c \in {Call("screen_img_handler_clear_screen_img", "SCREEN_IMG_SWELL_CHART"),
                Call("screen_img_handler_draw_screen_img", "SCREEN_IMG_SWELL_CHART")} -> 10
      [] c[1] = "screen_img_handler_mark_all_lines_dirty" -> 11
      [] c[1] = "screen_img_handler_render" -> 12
      [] OTHER -> 0

IsFetchStep(c) == StepOf(c) \in 1..4
IsFramebufferStep(c) == StepOf(c) \in 5..10
IsDrawCall(c) ==
    c[1] \in {"screen_img_handler_draw_time", "screen_img_handler_draw_date",
              "screen_img_handler_draw_spot_name", "screen_img_handler_draw_conditions",
              "screen_img_handler_draw_conditions_error", "screen_img_handler_draw_screen_img"}

C18_FixedOrderWithinPass ==
    LET w == WorkCalls
    IN  /\ \A k \in 1..Len(w) : StepOf(w[k]) # 0
        /\ \A j, k \in 1..Len(w) : j < k => StepOf(w[j]) <= StepOf(w[k])
        /\ \A j, k \in 1..Len(w) : (IsFetchStep(w[j]) /\ IsFramebufferStep(w[k])) => j < k
        /\ \A j, k \in 1..Len(w) :
              (w[j][1] = "screen_img_handler_full_clear" /\ IsDrawCall(w[k])) => j < k
        /\ \A k \in 1..Len(w) : w[k][1] = "screen_img_handler_render" => k = Len(w)
        /\ PassDone => (Len(w) >= 1 /\ w[Len(w)][1] = "screen_img_handler_render")

\* a pass that performed all twelve steps
C18_Witness ==
    /\ PassDone
    /\ full_clear
    /\ {StepOf(WorkCalls[k]) : k \in 1..Len(WorkCalls)} = 1..12

(***************************************************************************)
(* C19: a pass whose bit set holds the conditions bit calls exactly one of *)
(* draw_conditions(snapshot) and draw_conditions_error, and it draws the   *)
(* snapshot exactly when the fetch of that same pass succeeded; a success  *)
(* of an earlier pass does not carry over a failed fetch.  A pass without  *)
(* the conditions bit calls neither.                                       *)
(***************************************************************************)
DrawnConditions == CallCount("screen_img_handler_draw_conditions")
DrawnConditionsError == CallCount("screen_img_handler_draw_conditions_error")

C19_DrawMatchesSamePassFetch ==
    /\ (pc \in {"render", "wait"} /\ npasses >= 1 /\ Has(update_bits, UPDATE_CONDITIONS_BIT)) =>
          /\ CallCount("conditions_refresh") = 1
          /\ DrawnConditions + DrawnConditionsError = 1
          /\ (DrawnConditions = 1) <=> (refreshResult = "success")
    /\ ~Has(update_bits, UPDATE_CONDITIONS_BIT) =>
          (DrawnConditions = 0 /\ DrawnConditionsError = 0)
    /\ (pc = "framebuffer" /\ Has(update_bits, UPDATE_CONDITIONS_BIT)) =>
          (conditions_success <=> (refreshResult = "success"))

\* a failed fetch in a pass that follows a successful one: the error is drawn
\* although the snapshot of the earlier pass is still stored
C19_Witness ==
    /\ PassDone
    /\ npasses >= 2
    /\ Has(update_bits, UPDATE_CONDITIONS_BIT)
    /\ refreshResult = "failure"
    /\ last_retrieved_conditions # conditions_init
    /\ DrawnConditionsError = 1

(***************************************************************************)
(* C20: a pass renders exactly once when its bit set is non-empty and not  *)
(* at all when it is empty; it marks all lines dirty, once and before the  *)
(* render, exactly when the set holds a bit other than the time bit.  A    *)
(* pass for {time} alone renders without marking all lines dirty.          *)
(***************************************************************************)
RenderCount == CallCount("screen_img_handler_render")
MarkDirtyCount == CallCount("screen_img_handler_mark_all_lines_dirty")
PositionsOf(fn) == {k \in 1..Len(calls) : calls[k][1] = fn}

C20_RenderOnceDirtyUnlessTimeOnly ==
    /\ PassDone =>
          /\ update_bits # 0
          /\ RenderCount = 1
          /\ MarkDirtyCount = (IF BitSet(update_bits) \ {UPDATE_TIME_BIT} # {} THEN 1 ELSE 0)
          /\ \A d \in PositionsOf("screen_img_handler_mark_all_lines_dirty") :
                \A r \in PositionsOf("screen_img_handler_render") : d < r
    /\ InPass => (RenderCount = 0 /\ MarkDirtyCount = 0)
    /\ RenderCalls(0) = <<>>

C20_Witness ==
    /\ PassDone
    /\ update_bits = UPDATE_TIME_BIT
    /\ RenderCount = 1
    /\ MarkDirtyCount = 0

(***************************************************************************)
(* C21: every step of a pass (fetch, downloads, firmware-check start,      *)
(* full-screen clear, region clears and draws, mark-all-dirty, render) is  *)
(* made between a set_busy and the matching set_idle of some power class:  *)
(* at least one class is busy when the call is made.                       *)
(***************************************************************************)
CountBefore(k, fn, arg) == Cardinality({j \in 1..(k - 1) : calls[j] = <<fn, arg>>})

\* the classes marked busy when the k-th logged call is made
BusyAt(k) ==
    {cls \in PowerClasses :
        CountBefore(k, "sleep_handler_set_busy", cls) > CountBefore(k, "sleep_handler_set_idle", cls)}

C21_EveryStepWhileBusy ==
    \A k \in 1..Len(calls) : ~IsPowerCall(calls[k]) => BusyAt(k) # {}

(***************************************************************************)
(* C22: the task waits for connectivity once, at startup.  Before          *)
(* wifi_block_until_connected has returned nothing is fetched, downloaded, *)
(* drawn or rendered; the bits raised by ticks and external callers during *)
(* the wait are retained and the first pass services all of them together. *)
(***************************************************************************)
BeforeConnected == pc \in {"start", "wifi"}

ServicedInThisPass(b) == FetchOnce(b) /\ DrawOnce(b)

C22_WaitOnceThenServeAllRaised ==
    /\ BeforeConnected =>
          /\ calls = <<>>
          /\ npasses = 0
          /\ update_bits = 0
    /\ npasses = 0 => BitSet(pending) = RaisedBits(raisedSince)
    /\ npasses >= 1 =>
          /\ ~BeforeConnected
          /\ npasses = 1
          /\ pending = 0
          /\ BitSet(update_bits) = RaisedBits(wokenRaises)
    /\ PassDone =>
          /\ \A b \in RaisedBits(wokenRaises) : ServicedInThisPass(b)
          /\ CallCount("screen_img_handler_render") = 1

\* the first pass has serviced bits raised during the wait by the tick and by
\* an external caller
C22_Witness ==
    /\ PassDone
    /\ "tick" \in wokenRaisers
    /\ "conditions_trigger_spot_name_update" \in wokenRaisers
    /\ UPDATE_SPOT_NAME_BIT \in BitSet(update_bits)
    /\ UPDATE_TIME_BIT \in BitSet(update_bits)

(***************************************************************************)
(* C23: a failed conditions fetch changes only the conditions draw, the    *)
(* error instead of the snapshot.  Every other call of the pass, the       *)
(* downloads, clears and draws of the other bits, mark-all-dirty and       *)
(* render, is made exactly as in a pass with the same bit set whose fetch  *)
(* succeeded.                                                              *)
(***************************************************************************)
\* the calls of a whole pass for a bit set and a fetch outcome
PassCalls(bits, success) ==
    NetworkCalls(bits) \o FramebufferCalls(bits, FullClear(bits), success) \o RenderCalls(bits)

ErrorForSnapshot(seq) ==
    [k \in 1..Len(seq) |->
        IF seq[k][1] = "screen_img_handler_draw_conditions"
        THEN Call("screen_img_handler_draw_conditions_error", "")
        ELSE seq[k]]

C23_FailureChangesOnlyConditionsDraw ==
    (PassDone /\ Has(update_bits, UPDATE_CONDITIONS_BIT) /\ refreshResult = "failure") =>
        /\ calls = ErrorForSnapshot(PassCalls(update_bits, TRUE))
        /\ DrawnConditionsError = 1
        /\ DrawnConditions = 0
        /\ \A b \in BitSet(update_bits) \ {UPDATE_CONDITIONS_BIT} : ServicedInThisPass(b)

C23_Witness ==
    /\ PassDone
    /\ refreshResult = "failure"
    /\ BitSet(update_bits) = {UPDATE_CONDITIONS_BIT, UPDATE_TIDE_CHART_BIT, UPDATE_TIME_BIT}
    /\ CallCountArg("screen_img_handler_draw_screen_img", "SCREEN_IMG_TIDE_CHART") = 1
    /\ RenderCount = 1

(***************************************************************************)
(* C24: a region a pass erases, by its region clear or by the full-screen  *)
(* clear, is redrawn in the same pass before the render, for every woken   *)
(* bit set; no pass renders a region it has cleared and not redrawn.       *)
(***************************************************************************)
Regions == {"time", "date", "spot_name", "conditions", "tide_chart", "swell_chart"}

ClearsRegion(c, r) ==
    \/ c[1] = "screen_img_handler_full_clear"
    \/ r = "time" /\ c[1] = "screen_img_handler_clear_time"
    \/ r = "date" /\ c[1] = "screen_img_handler_clear_date"
    \/ r = "spot_name" /\ c[1] = "screen_img_handler_clear_spot_name"
    \/ r = "conditions" /\ c[1] = "screen_img_handler_clear_conditions"
    \/ r = "tide_chart" /\ c = Call("screen_img_handler_clear_screen_img", "SCREEN_IMG_TIDE_CHART")
    \/ r = "swell_chart" /\ c = Call("screen_img_handler_clear_screen_img", "SCREEN_IMG_SWELL_CHART")

DrawsRegion(c, r) ==
    \/ r = "time" /\ c[1] = "screen_img_handler_draw_time"
    \/ r = "date" /\ c[1] = "screen_img_handler_draw_date"
    \/ r = "spot_name" /\ c[1] = "screen_img_handler_draw_spot_name"
    \/ r = "conditions" /\ c[1] \in {"screen_img_handler_draw_conditions",
                                     "screen_img_handler_draw_conditions_error"}
    \/ r = "tide_chart" /\ c = Call("screen_img_handler_draw_screen_img", "SCREEN_IMG_TIDE_CHART")
    \/ r = "swell_chart" /\ c = Call("screen_img_handler_draw_screen_img", "SCREEN_IMG_SWELL_CHART")

RedrawnBeforeRender(r) ==
    \A k \in 1..Len(calls) :
        ClearsRegion(calls[k], r) =>
            \E d \in (k + 1)..Len(calls) :
                /\ DrawsRegion(calls[d], r)
                /\ \A n \in PositionsOf("screen_img_handler_render") : d < n

C24_ErasedRegionsRedrawn ==
    PassDone => \A r \in Regions : RedrawnBeforeRender(r)

(***************************************************************************)
(* C25: no discrete entry ever has force_next_update and executed_already  *)
(* both true, so on every tick the nested decision of the callback fires   *)
(* and rearms exactly as the flat rule does: fire when (matches or force)  *)
(* and not executed; rearm when not matches and executed.                  *)
(***************************************************************************)
EntryMatches(e, now) ==
    /\ discrete_time_matches(tm_hour(now), e.hour)
    /\ discrete_time_matches(tm_min(now), e.minute)

\* the flat rule applied to one entry
FlatRuleFires(e, now) == (EntryMatches(e, now) \/ e.force_next_update) /\ ~e.executed_already

FlatRuleAfter(e, now) ==
    IF FlatRuleFires(e, now)
    THEN [e EXCEPT !.force_next_update = FALSE, !.executed_already = TRUE]
    ELSE IF ~EntryMatches(e, now) /\ e.executed_already
         THEN [e EXCEPT !.executed_already = FALSE]
         ELSE e

NeverForcedAndExecuted ==
    \A i \in DiscIdx :
        ~(discrete_updates[i].force_next_update /\ discrete_updates[i].executed_already)

TickFollowsFlatRule ==
    (ticks' = ticks + 1) =>
        \A i \in DiscIterated :
            /\ discrete_updates'[i] = FlatRuleAfter(discrete_updates[i], clock)
            /\ (i \in discFired') <=> FlatRuleFires(discrete_updates[i], clock)

C25_NestedDecisionEqualsFlatRule ==
    /\ []NeverForcedAndExecuted
    /\ [][TickFollowsFlatRule]_vars

\* the tide entry has fired by force, been rearmed and fired again at its minute
C25_Witness ==
    /\ ticks >= 3
    /\ 1 \in discFired
    /\ EntryMatches(discrete_updates[1], LastTickTime)
    /\ discrete_updates[1].executed_already
    /\ ~discrete_updates[1].force_next_update
    /\ ~discrete_updates[2].executed_already

(***************************************************************************)
(* C26: with one tick per second and a clock that advances one second per  *)
(* tick, consecutive fires of an iterated differential entry are exactly   *)
(* interval + 1 seconds apart, the comparison being strict: the time       *)
(* entry fires every 61 ticks, and some wall-clock minutes pass without a  *)
(* time update.                                                            *)
(***************************************************************************)
SecondsSinceLastRun(i) == LastTickTime - differential_updates[i].last_executed_epoch_secs

C26_FiresEveryIntervalPlusOne ==
    \A i \in DiffIterated :
        /\ (ticks >= 2 /\ i \in diffFired) =>
              LastTickTime - prevDiff[i].last_executed_epoch_secs = DiffInterval(i) + 1
        /\ (ticks >= 2 /\ i \notin diffFired) =>
              LastTickTime - prevDiff[i].last_executed_epoch_secs <= DiffInterval(i)
        /\ ticks >= 1 => SecondsSinceLastRun(i) \in 0..DiffInterval(i)
        /\ ticks >= 1 =>
              (differential_updates[i].last_executed_epoch_secs - boot) % (DiffInterval(i) + 1) = 0

\* the last second of a wall-clock minute in which the time entry did not fire
C26_Witness ==
    /\ ticks > SECS_PER_MIN
    /\ tm_sec(LastTickTime) = SECS_PER_MIN - 1
    /\ SecondsSinceLastRun(1) = TIME_UPDATE_INTERVAL_SECONDS
    /\ 1 \notin diffFired

(***************************************************************************)
(* C27: whatever the time source returns on successive ticks, a clock that *)
(* steps backward included, an iterated differential entry never goes more *)
(* than interval + 1 consecutive ticks without firing.                     *)
(***************************************************************************)
C27_NeverLongerThanIntervalPlusOne ==
    \A i \in DiffIterated : sinceFired[i] <= DiffInterval(i) + 1

====
